---- MODULE Spec2Model ----
(***************************************************************************)
(* A model of the fal.ai ComfyUI nodes: the inpainting node                *)
(* (JuggernautFluxInpainting.execute), the upload operations               *)
(* (FalAIUploadImage.upload, FalClient.upload_image) and the image         *)
(* utilities of fal_api/utils.py.                                          *)
(*                                                                         *)
(* Units: strength is counted in hundredths (0.85 is 85); guidance_scale   *)
(* and the LoRA scales are counted in whole units.  A Python string that   *)
(* the code trims is a sequence of characters; every other string is an    *)
(* atom.                                                                   *)
(***************************************************************************)
EXTENDS Integers, Sequences, FiniteSets, TLC

\* ------------------------------------------------------------------ bounds
MaxImages == 2      \* longest image list of a remote response
MaxPathLen == 2     \* longest LoRA path string
MaxStack == 3       \* longest list handed to images2tensor directly

Threads == {"t1", "t2"}

\* Python's None.
None == [type |-> "NoneType"]

\* ------------------------------------------------ strings that get trimmed
Chars == {" ", "x"}
Whitespace == {" "}

RECURSIVE lstrip(_)
lstrip(s) ==
    IF s # <<>> /\ Head(s) \in Whitespace THEN lstrip(Tail(s)) ELSE s

RECURSIVE rstrip(_)
rstrip(s) ==
    IF s # <<>> /\ s[Len(s)] \in Whitespace
    THEN rstrip(SubSeq(s, 1, Len(s) - 1))
    ELSE s

\* str.strip()
strip(s) == rstrip(lstrip(s))

\* Python truthiness of a str.
Truthy(s) == s # <<>>

RECURSIVE SeqsUpTo(_, _)
SeqsUpTo(S, n) ==
    IF n = 0 THEN {<<>>}
    ELSE LET shorter == SeqsUpTo(S, n - 1)
         IN  shorter \cup {Append(s, x) : s \in {q \in shorter : Len(q) = n - 1}, x \in S}

\* ------------------------------------------------- the inpainting node
IMAGE_SIZES ==
    {"square_hd", "square", "portrait_4_3", "portrait_16_9",
     "landscape_4_3", "landscape_16_9"}

\* The ranges INPUT_TYPES declares to the host (strength in hundredths).
INPUT_TYPES ==
    [lora_1_scale        |-> [min |-> 0,  max |-> 4,   default |-> 1],
     lora_2_scale        |-> [min |-> 0,  max |-> 4,   default |-> 1],
     num_inference_steps |-> [min |-> 1,  max |-> 50,  default |-> 28],
     guidance_scale      |-> [min |-> 0,  max |-> 35,  default |-> 3],
     strength            |-> [min |-> 1,  max |-> 100, default |-> 85],
     num_images          |-> [min |-> 1,  max |-> 4,   default |-> 1],
     seed                |-> [min |-> -1, default |-> -1],
     image_size          |-> [options |-> IMAGE_SIZES, default |-> "landscape_4_3"]]

model_id == "rundiffusion-fal/juggernaut-flux-lora/inpainting"

\* A slip: the path is tested and sent untrimmed.
LoraEntryUntrimmed(path, scale) ==
    IF Truthy(path) THEN <<[path |-> path, scale |-> scale]>> ELSE <<>>

\* "Build LoRA list from inputs": an entry for each path that is truthy and
\* still truthy after strip(), path trimmed, scale as given.
LoraEntry(path, scale) ==
    IF Truthy(path) /\ Truthy(strip(path))
    THEN <<[path |-> strip(path), scale |-> scale]>>
    ELSE <<>>

lora_list(a) ==
    LoraEntry(a.lora_1_path, a.lora_1_scale) \o LoraEntry(a.lora_2_path, a.lora_2_scale)

\* A slip: "if seed:" in place of "if seed != -1:".
SeedTruthy(seed) == seed # 0

\* "Only add seed if it's not -1 (random)".
SeedIncluded(seed) == seed # -1

\* "Build the request arguments": the eleven fixed keys, then seed and loras
\* when their conditions hold.
BuildArguments(a) ==
    LET base == [prompt                |-> a.prompt,
                 image_url             |-> a.image_url,
                 mask_url              |-> a.mask_url,
                 num_inference_steps   |-> a.num_inference_steps,
                 guidance_scale        |-> a.guidance_scale,
                 strength              |-> a.strength,
                 num_images            |-> a.num_images,
                 image_size            |-> a.image_size,
                 output_format         |-> a.output_format,
                 enable_safety_checker |-> a.enable_safety_checker,
                 sync_mode             |-> a.sync_mode]
        seeded == IF SeedIncluded(a.seed) THEN ("seed" :> a.seed) @@ base ELSE base
    IN  IF lora_list(a) # <<>> THEN ("loras" :> lora_list(a)) @@ seeded ELSE seeded


\* ------------------------------------------------- Python results
Ok(v) == [ok |-> TRUE, value |-> v]
Raised(e) == [ok |-> FALSE, exc |-> e]
Exc(type, detail) == [type |-> type, detail |-> detail]

\* ------------------------------------------------- the remote side
\* What the CDN answers to a GET of each URL: three PNG images (two of the
\* same size, one of them with an alpha channel), bytes that are no image,
\* and a URL that is gone.
Image(id, w, h, mode) == [type |-> "Image", id |-> id, size |-> <<w, h>>, mode |-> mode]

CDN ==
    [u1 |-> [status_code |-> 200, content |-> [format |-> "PNG", image |-> Image(<<"img1">>, 64, 64, "RGB")]],
     u2 |-> [status_code |-> 200, content |-> [format |-> "PNG", image |-> Image(<<"img2">>, 64, 64, "RGBA")]],
     u3 |-> [status_code |-> 200, content |-> [format |-> "PNG", image |-> Image(<<"img3">>, 32, 32, "RGB")]],
     u4 |-> [status_code |-> 200, content |-> [format |-> "garbage"]],
     u5 |-> [status_code |-> 404, content |-> [format |-> "garbage"]]]

Urls == DOMAIN CDN

\* What fal_client.subscribe can return: a payload without an image list, or
\* one with a list of up to MaxImages image URLs.
Responses ==
    {[detail |-> "error"]}
        \cup {[images |-> [i \in DOMAIN us |-> [url |-> us[i]]]] : us \in SeqsUpTo(Urls, MaxImages)}

\* What fal_client.subscribe and fal_client.upload_file can raise.
RemoteErrors == {Exc("FalClientError", "remote"), Exc("ConnectionError", "network")}

\* ------------------------------------------------- fal_api/utils.py
\* requests.get(url); response.raise_for_status(); response.content
fetch_image(url) ==
    LET response == CDN[url]
    IN  IF response.status_code >= 400
        THEN Raised(Exc("HTTPError", url))
        ELSE Ok(response.content)

\* PIL: Image.getbands() by mode.
getbands(img) ==
    CASE img.mode = "L"    -> <<"L">>
      [] img.mode = "LA"   -> <<"L", "A">>
      [] img.mode = "P"    -> <<"P">>
      [] img.mode = "RGB"  -> <<"R", "G", "B">>
      [] img.mode = "RGBA" -> <<"R", "G", "B", "A">>
      [] img.mode = "PA"   -> <<"P", "A">>
      [] img.mode = "CMYK" -> <<"C", "M", "Y", "K">>
      [] img.mode = "1"    -> <<"1">>

InBands(b, img) == \E i \in DOMAIN getbands(img) : getbands(img)[i] = b

\* PIL: Image.convert(mode) and Image.getchannel('A') (a single-band "L" image).
\* An image's id names its pixel content: a conversion to another mode or the
\* extraction of a band yields other pixels, hence another id.
convert(img, mode) ==
    IF img.mode = mode THEN img
    ELSE [img EXCEPT !.mode = mode, !.id = Append(img.id, mode)]
getchannel(img, band) == [img EXCEPT !.mode = "L", !.id = Append(img.id, band)]

\* A slip: the image is returned in the mode of the file when no mask is
\* wanted, and a file without alpha raises when one is.
decode_image_unconverted(data_bytes, rtn_mask) ==
    IF data_bytes.format = "garbage"
    THEN Raised(Exc("UnidentifiedImageError", "cannot identify image file"))
    ELSE LET img == data_bytes.image
         IN  IF ~rtn_mask THEN Ok(img)
             ELSE IF InBands("A", img) THEN Ok(getchannel(img, "A"))
             ELSE Raised(Exc("ValueError", "The image has no channel \"A\""))

\* decode_image: PIL.Image.open raises on bytes that are no image; otherwise
\* RGB when no mask is wanted, the alpha band when there is one, else None.
decode_image(data_bytes, rtn_mask) ==
    IF data_bytes.format = "garbage"
    THEN Raised(Exc("UnidentifiedImageError", "cannot identify image file"))
    ELSE LET img == data_bytes.image
         IN  IF ~rtn_mask THEN Ok(convert(img, "RGB"))
             ELSE IF InBands("A", img) THEN Ok(getchannel(img, "A"))
             ELSE Ok(None)

\* numpy.array(image).shape: (H, W) for a single band, (H, W, bands) otherwise.
ArrayShape(img) ==
    LET n == Len(getbands(img))
    IN  IF n = 1 THEN <<img.size[2], img.size[1]>> ELSE <<img.size[2], img.size[1], n>>

\* torch.from_numpy(numpy.array(image)).float() / 255.0
ToTensor(img) == [type |-> "Tensor", shape |-> ArrayShape(img), data |-> img.id]

\* A slip: only height and width are compared.
SameHeightWidth(tensors) ==
    \A i, j \in DOMAIN tensors :
        SubSeq(tensors[i].shape, 1, 2) = SubSeq(tensors[j].shape, 1, 2)

\* torch.stack: a non-empty list of tensors of one shape, or RuntimeError.
SameShape(tensors) == \A i, j \in DOMAIN tensors : tensors[i].shape = tensors[j].shape

torch_stack(tensors) ==
    IF tensors = <<>>
    THEN Raised(Exc("RuntimeError", "stack expects a non-empty TensorList"))
    ELSE IF ~SameShape(tensors)
    THEN Raised(Exc("RuntimeError", "stack expects each tensor to be equal size"))
    ELSE Ok([type  |-> "Tensor",
             shape |-> <<Len(tensors)>> \o tensors[1].shape,
             data  |-> [i \in DOMAIN tensors |-> tensors[i].data]])

\* A Python list.
PyList(items) == [type |-> "list", items |-> items]

\* images2tensor: a list is stacked image by image; a single PIL image gets a
\* batch axis of one.
images2tensor(images) ==
    IF images.type = "list"
    THEN torch_stack([i \in DOMAIN images.items |-> ToTensor(images.items[i])])
    ELSE Ok([type  |-> "Tensor",
             shape |-> <<1>> \o ArrayShape(images),
             data  |-> <<images.id>>])

\* torch.zeros((1, 1, 1, 3))
ZeroPlaceholder == [type |-> "Tensor", shape |-> <<1, 1, 1, 3>>, data |-> << <<"zeros">> >>]

\* A slip: a URL that cannot be fetched or decoded is skipped.
LoopBodySkipping(images, url) ==
    LET image_data == fetch_image(url)
    IN  IF ~image_data.ok THEN Ok(images)
        ELSE LET image == decode_image(image_data.value, FALSE)
             IN  IF ~image.ok THEN Ok(images)
                 ELSE Ok(Append(images, image.value))

\* A slip: images.insert(0, image) in place of images.append(image).
LoopBodyPrepending(images, url) ==
    LET image_data == fetch_image(url)
    IN  IF ~image_data.ok THEN image_data
        ELSE LET image == decode_image(image_data.value, FALSE)
             IN  IF ~image.ok THEN image
                 ELSE Ok(<<image.value>> \o images)

\* One pass of imageurl2tensor's loop: fetch, decode, append.
LoopBody(images, url) ==
    LET image_data == fetch_image(url)
    IN  IF ~image_data.ok THEN image_data
        ELSE LET image == decode_image(image_data.value, FALSE)
             IN  IF ~image.ok THEN image
                 ELSE Ok(Append(images, image.value))

\* imageurl2tensor once the loop is over (or was never entered).
LoopExit(image_urls, images) ==
    IF image_urls = <<>> THEN Ok(ZeroPlaceholder) ELSE images2tensor(PyList(images))

\* A slip: 'if "images" in result' alone.
HasImagesKey(result) == "images" \in DOMAIN result

\* execute: 'if "images" in result and result["images"]'
HasImages(result) == "images" \in DOMAIN result /\ result.images # <<>>

\* execute: [img["url"] for img in result["images"]]
ImageUrls(result) == [i \in DOMAIN result.images |-> result.images[i].url]

\* execute: "except Exception as e: print(...); raise e"
Reraise(e) == e


\* tensor2images: one PIL image per batch entry, its mode by channel count.
tensor2images(tensor) ==
    [i \in 1..tensor.shape[1] |->
        Image(tensor.data[i], tensor.shape[3], tensor.shape[2],
              IF tensor.shape[4] = 4 THEN "RGBA" ELSE "RGB")]

\* ------------------------------------------------- state
VARIABLES
    environ,      \* os.environ["FAL_KEY"] of the process ("" while unset)
    pc,           \* where each thread's call stands
    call,         \* the operation each thread runs and its inputs
    arguments,    \* execute: the payload built
    requests,     \* the remote requests each thread's call has issued, in order,
                  \* each with the reply it got
    result,       \* execute: what subscribe returned (None until it has)
    image_urls,   \* execute / imageurl2tensor: the URLs taken from the result
    pos,          \* imageurl2tensor: index of the next URL of the loop
    images,       \* imageurl2tensor: the images decoded so far
    files,        \* the staging files on disk
    pending,      \* upload: what the try block returned or raised, held by finally
    outcome,      \* what each call returned or raised
    stack_in,     \* images2tensor called on its own: the argument
    stack_out,    \* images2tensor called on its own: the result
    decode_in,    \* decode_image called on its own: the arguments
    decode_out    \* decode_image called on its own: the result

vars == <<environ, pc, call, arguments, requests, result, image_urls, pos, images,
          files, pending, outcome, stack_in, stack_out, decode_in, decode_out>>

NoCall == [op |-> "none"]
NoOutcome == [status |-> "none"]
Returned(v) == [status |-> "returned", value |-> v]
Raising(e) == [status |-> "raised", exc |-> e]

\* A call's result as the caller sees it.
Finish(r) == IF r.ok THEN Returned(r.value) ELSE Raising(r.exc)

\* The staging file of thread t's upload: NamedTemporaryFile makes a fresh,
\* unique name for every call, between the prefix (upload: the filename and
\* an underscore) and the suffix.
TempPath(t, prefix, suffix) == [prefix |-> prefix, suffix |-> suffix, unique |-> t]

\* ------------------------------------------------- inputs
Keys == {"keyA", "keyB"}
Paths == SeqsUpTo(Chars, MaxPathLen)

DefaultArgs(key) ==
    [client                |-> [api_key |-> key],
     prompt                |-> "a prompt",
     image_url             |-> "image_url",
     mask_url              |-> "mask_url",
     lora_1_path           |-> <<>>,
     lora_1_scale          |-> INPUT_TYPES.lora_1_scale.default,
     lora_2_path           |-> <<>>,
     lora_2_scale          |-> INPUT_TYPES.lora_2_scale.default,
     num_inference_steps   |-> INPUT_TYPES.num_inference_steps.default,
     guidance_scale        |-> INPUT_TYPES.guidance_scale.default,
     strength              |-> INPUT_TYPES.strength.default,
     num_images            |-> INPUT_TYPES.num_images.default,
     seed                  |-> INPUT_TYPES.seed.default,
     image_size            |-> INPUT_TYPES.image_size.default,
     output_format         |-> "jpeg",
     enable_safety_checker |-> TRUE,
     sync_mode             |-> FALSE]

\* A value below, inside and above the declared range of a numeric input.
Around(name) ==
    {INPUT_TYPES[name].min - 1, INPUT_TYPES[name].default, INPUT_TYPES[name].max + 1}

\* The calls of execute that are tried: the defaults with one group of inputs
\* varied at a time.
ExecuteInputs ==
    LET d == DefaultArgs("keyA")
    IN  {[d EXCEPT !.lora_1_path = p1, !.lora_2_path = p2] : p1 \in Paths, p2 \in Paths}
        \cup {[d EXCEPT !.lora_1_path = <<"x">>, !.lora_2_path = <<" ", "x">>,
                        !.lora_1_scale = s1, !.lora_2_scale = s2] :
                 s1 \in Around("lora_1_scale"), s2 \in Around("lora_2_scale")}
        \cup {[d EXCEPT !.num_inference_steps = n, !.num_images = m] :
                 n \in Around("num_inference_steps"), m \in Around("num_images")}
        \cup {[d EXCEPT !.guidance_scale = g, !.strength = s] :
                 g \in Around("guidance_scale"), s \in Around("strength")}
        \cup {[d EXCEPT !.seed = sd, !.image_size = sz] :
                 sd \in {-1, 0, 7}, sz \in {"landscape_4_3", "square_hd", "1024x768"}}

\* The IMAGE tensors handed to the upload node: one or two images of three or
\* four channels.
UploadTensors ==
    {[type |-> "Tensor", shape |-> <<1, 8, 8, 3>>, data |-> << <<"in1">> >>],
     [type |-> "Tensor", shape |-> <<1, 8, 8, 4>>, data |-> << <<"in2">> >>],
     [type |-> "Tensor", shape |-> <<2, 8, 8, 3>>, data |-> << <<"in1">>, <<"in3">> >>]}

UploadInputs ==
    [client : {[api_key |-> "keyA"]}, image : UploadTensors,
     filename : {"image"}, format : {"png", "jpeg", "webp", "bmp"}]

UploadImageInputs ==
    [client : {[api_key |-> "keyA"]}, image_data : {"bytes1"},
     content_type : {"image/png", "image/jpeg", "image/webp", "image/gif"}]


\* ------------------------------------------------- FalClient
\* FalClient.__init__: keeps the key and writes it to os.environ["FAL_KEY"].
FalClientInit(api_key) == api_key

\* fal_client takes its credential from os.environ["FAL_KEY"] when it sends a
\* request: neither subscribe nor upload_file is handed a key.
Credential(env) == env

\* A slip: with_logs is not handed on, so fal_client's default applies.
FalClientSubscribeNoLogs(model, args, with_logs) ==
    [kind |-> "subscribe", model_id |-> model, arguments |-> args, with_logs |-> FALSE]

\* FalClient.subscribe: the call is handed on to fal_client.subscribe with the
\* model, the arguments and with_logs as given.
FalClientSubscribe(model, args, with_logs) ==
    [kind |-> "subscribe", model_id |-> model, arguments |-> args, with_logs |-> with_logs]

\* ------------------------------------------------- execute
\* Lines 177-216: the client is constructed and the payload is built.
Execute(t, a) ==
    /\ pc[t] = "idle"
    /\ environ' = FalClientInit(a.client.api_key)
    /\ call' = [call EXCEPT ![t] = [op |-> "execute", args |-> a]]
    /\ arguments' = [arguments EXCEPT ![t] = BuildArguments(a)]
    /\ pc' = [pc EXCEPT ![t] = "subscribe"]
    /\ UNCHANGED <<requests, result, image_urls, pos, images, files, pending,
                   outcome, stack_in, stack_out,
                   decode_in, decode_out>>

\* Lines 218-232: real_client.subscribe(model_id, arguments, with_logs=True),
\* then the image list is taken from the result, or the call raises.
Subscribe(t, R) ==
    /\ pc[t] = "subscribe"
    /\ LET request == FalClientSubscribe(model_id, arguments[t], TRUE)
                          @@ [credential |-> Credential(environ)]
       IN  \/ \E e \in RemoteErrors :
                /\ requests' = [requests EXCEPT ![t] =
                        Append(@, request @@ [reply |-> Raised(e)])]
                /\ outcome' = [outcome EXCEPT ![t] = Raising(Reraise(e))]
                /\ pc' = [pc EXCEPT ![t] = "done"]
                /\ UNCHANGED <<result, image_urls, pos>>
           \/ \E r \in R :
                /\ requests' = [requests EXCEPT ![t] =
                        Append(@, request @@ [reply |-> Ok(r)])]
                /\ result' = [result EXCEPT ![t] = r]
                /\ IF HasImages(r)
                   THEN /\ image_urls' = [image_urls EXCEPT ![t] = ImageUrls(r)]
                        /\ pos' = [pos EXCEPT ![t] = 1]
                        /\ pc' = [pc EXCEPT ![t] = "imageurl2tensor"]
                        /\ UNCHANGED outcome
                   ELSE /\ outcome' = [outcome EXCEPT ![t] = Raising(Reraise(
                               [type |-> "Exception",
                                detail |-> "No images received from API",
                                response |-> r]))]
                        /\ pc' = [pc EXCEPT ![t] = "done"]
                        /\ UNCHANGED <<image_urls, pos>>
    /\ UNCHANGED <<environ, call, arguments, images, files, pending, stack_in, stack_out,
                   decode_in, decode_out>>

\* imageurl2tensor, one URL of the loop: the GET is issued, then the image is
\* decoded and appended, or the exception leaves execute.
Download(t) ==
    /\ pc[t] = "imageurl2tensor"
    /\ pos[t] <= Len(image_urls[t])
    /\ LET url == image_urls[t][pos[t]]
           r   == LoopBody(images[t], url)
       IN  /\ requests' = [requests EXCEPT ![t] = Append(@, [kind |-> "get", url |-> url,
                                  reply |-> CDN[url].status_code])]
           /\ IF r.ok
              THEN /\ images' = [images EXCEPT ![t] = r.value]
                   /\ pos' = [pos EXCEPT ![t] = @ + 1]
                   /\ UNCHANGED <<pc, outcome>>
              ELSE /\ outcome' = [outcome EXCEPT ![t] = Raising(Reraise(r.exc))]
                   /\ pc' = [pc EXCEPT ![t] = "done"]
                   /\ UNCHANGED <<images, pos>>
    /\ UNCHANGED <<environ, call, arguments, result, image_urls, files, pending,
                   stack_in, stack_out,
                   decode_in, decode_out>>

\* imageurl2tensor after the loop: the images are stacked and execute returns
\* the one-element tuple, or the stacking error leaves execute.
Stack(t) ==
    /\ pc[t] = "imageurl2tensor"
    /\ pos[t] > Len(image_urls[t])
    /\ LET r == LoopExit(image_urls[t], images[t])
       IN  outcome' = [outcome EXCEPT ![t] =
               IF r.ok THEN Returned(<<r.value>>) ELSE Raising(Reraise(r.exc))]
    /\ pc' = [pc EXCEPT ![t] = "done"]
    /\ UNCHANGED <<environ, call, arguments, requests, result, image_urls, pos, images,
                   files, pending, stack_in, stack_out,
                   decode_in, decode_out>>

\* ------------------------------------------------- the upload operations
\* upload: format_map.get(format, "PNG") and ext_map.get(format, ".png")
PilFormat(format) ==
    CASE format = "jpeg" -> "JPEG" [] format = "webp" -> "WEBP" [] OTHER -> "PNG"
Ext(format) ==
    CASE format = "jpeg" -> ".jpg" [] format = "webp" -> ".webp" [] OTHER -> ".png"

\* upload_image: ext_map.get(content_type, ".png")
ExtOfContentType(content_type) ==
    CASE content_type = "image/jpeg" -> ".jpg"
      [] content_type = "image/webp" -> ".webp"
      [] OTHER -> ".png"

\* PIL refuses to write an image with an alpha band as JPEG.
CanSave(img, pil_format) == ~(pil_format = "JPEG" /\ InBands("A", img))

\* What writing the staging file can raise: PIL's refusal, or the disk.
WriteErrors(c) ==
    {Exc("OSError", "No space left on device")}
        \cup IF c.op = "upload"
                  /\ ~CanSave(tensor2images(c.args.image)[1], PilFormat(c.args.format))
             THEN {Exc("OSError", "cannot write mode RGBA as JPEG")}
             ELSE {}

\* Whether the write can succeed.
WriteSucceeds(c) ==
    c.op = "upload" => CanSave(tensor2images(c.args.image)[1], PilFormat(c.args.format))

StagingPath(t, c) ==
    IF c.op = "upload"
    THEN TempPath(t, c.args.filename, Ext(c.args.format))
    ELSE TempPath(t, "tmp", ExtOfContentType(c.args.content_type))

\* FalAIUploadImage.upload, lines 59-80: the key goes to os.environ.
Upload(t, u) ==
    /\ pc[t] = "idle"
    /\ environ' = u.client.api_key
    /\ call' = [call EXCEPT ![t] = [op |-> "upload", args |-> u]]
    /\ pc' = [pc EXCEPT ![t] = "tempfile"]
    /\ UNCHANGED <<arguments, requests, result, image_urls, pos, images, files,
                   pending, outcome, stack_in, stack_out,
                   decode_in, decode_out>>

\* FalClient(api_key).upload_image(image_data, content_type), lines 95-104.
UploadImage(t, u) ==
    /\ pc[t] = "idle"
    /\ environ' = FalClientInit(u.client.api_key)
    /\ call' = [call EXCEPT ![t] = [op |-> "upload_image", args |-> u]]
    /\ pc' = [pc EXCEPT ![t] = "tempfile"]
    /\ UNCHANGED <<arguments, requests, result, image_urls, pos, images, files,
                   pending, outcome, stack_in, stack_out,
                   decode_in, decode_out>>

\* The with block of both operations: NamedTemporaryFile(delete=False) creates
\* the staging file, the image is written and the file is closed.  An
\* exception of the write leaves the with block, which closes the file and
\* does not delete it, and then the operation: the try/finally that unlinks
\* the file has not been entered.
WriteStaging(t) ==
    /\ pc[t] = "tempfile"
    /\ files' = files \cup {StagingPath(t, call[t])}
    /\ \/ /\ WriteSucceeds(call[t])
          /\ pc' = [pc EXCEPT ![t] = "upload_file"]
          /\ UNCHANGED outcome
       \/ \E e \in WriteErrors(call[t]) :
            /\ outcome' = [outcome EXCEPT ![t] = Raising(e)]
            /\ pc' = [pc EXCEPT ![t] = "done"]
    /\ UNCHANGED <<environ, call, arguments, requests, result, image_urls, pos, images,
                   pending, stack_in, stack_out,
                   decode_in, decode_out>>

\* The try block: fal_client.upload_file(temp_path) returns the URL or raises.
UploadFile(t) ==
    /\ pc[t] = "upload_file"
    /\ \E reply \in {Ok("cdn_url")} \cup {Raised(e) : e \in RemoteErrors} :
        /\ requests' = [requests EXCEPT ![t] =
                Append(@, [kind |-> "upload_file", path |-> StagingPath(t, call[t]),
                           credential |-> Credential(environ), reply |-> reply])]
        /\ pending' = [pending EXCEPT ![t] =
                IF reply.ok /\ call[t].op = "upload" THEN Ok(<<reply.value>>) ELSE reply]
    /\ pc' = [pc EXCEPT ![t] = "finally"]
    /\ UNCHANGED <<environ, call, arguments, result, image_urls, pos, images, files,
                   outcome, stack_in, stack_out,
                   decode_in, decode_out>>

\* The finally block: the staging file is unlinked (upload tests that it
\* exists first), then the return or the exception of the try block goes on.
Finally(t) ==
    /\ pc[t] = "finally"
    /\ files' = files \ {StagingPath(t, call[t])}
    /\ outcome' = [outcome EXCEPT ![t] =
            IF call[t].op = "upload_image" /\ StagingPath(t, call[t]) \notin files
            THEN Raising(Exc("FileNotFoundError", "unlink"))
            ELSE Finish(pending[t])]
    /\ pc' = [pc EXCEPT ![t] = "done"]
    /\ UNCHANGED <<environ, call, arguments, requests, result, image_urls, pos, images,
                   pending, stack_in, stack_out,
                   decode_in, decode_out>>

\* ------------------------------------------------- images2tensor on its own
StackInputs ==
    LET pool == {Image(<<"a">>, 64, 64, "RGB"), Image(<<"b">>, 64, 64, "RGB"),
                 Image(<<"c">>, 32, 32, "RGB"), Image(<<"d">>, 64, 32, "RGB"),
                 Image(<<"e">>, 64, 64, "RGBA"), Image(<<"f">>, 64, 64, "L")}
    IN  {PyList(s) : s \in SeqsUpTo(pool, MaxStack)} \cup pool

Images2Tensor ==
    /\ stack_out = NoOutcome
    /\ stack_out' = Finish(images2tensor(stack_in))
    /\ UNCHANGED <<environ, pc, call, arguments, requests, result, image_urls, pos, images,
                   files, pending, outcome, stack_in, decode_in, decode_out>>

\* ------------------------------------------------- decode_image on its own
\* The bytes handed to decode_image: a file of every channel layout, in two
\* sizes and of two contents, and bytes that are no image.
DecodeModes == {"1", "L", "LA", "P", "PA", "RGB", "RGBA", "CMYK"}

DecodeInputs ==
    [data_bytes :
        {[format |-> "PNG", image |-> Image(id, sz[1], sz[2], mode)] :
            id \in {<<"a">>, <<"b">>}, sz \in {<<1, 1>>, <<64, 32>>}, mode \in DecodeModes}
        \cup {[format |-> "garbage"]},
     rtn_mask : BOOLEAN]

NoInput == [data_bytes |-> [format |-> "garbage"], rtn_mask |-> FALSE]

DecodeImage ==
    /\ decode_out = NoOutcome
    /\ decode_out' = Finish(decode_image(decode_in.data_bytes, decode_in.rtn_mask))
    /\ UNCHANGED <<environ, pc, call, arguments, requests, result, image_urls, pos, images,
                   files, pending, outcome, stack_in, stack_out, decode_in>>

\* ------------------------------------------------- specifications
Idle ==
    /\ environ = ""
    /\ pc = [t \in Threads |-> "idle"]
    /\ call = [t \in Threads |-> NoCall]
    /\ arguments = [t \in Threads |-> None]
    /\ requests = [t \in Threads |-> <<>>]
    /\ result = [t \in Threads |-> None]
    /\ image_urls = [t \in Threads |-> <<>>]
    /\ pos = [t \in Threads |-> 1]
    /\ images = [t \in Threads |-> <<>>]
    /\ files = {}
    /\ pending = [t \in Threads |-> None]
    /\ outcome = [t \in Threads |-> NoOutcome]

\* One call, of any of the three operations, on one thread.
Init ==
    /\ Idle
    /\ stack_in = PyList(<<>>)
    /\ stack_out = NoOutcome
    /\ decode_in = NoInput
    /\ decode_out = NoOutcome

Next ==
    \E t \in {"t1"} :
        \/ \E a \in ExecuteInputs : Execute(t, a)
        \/ Subscribe(t, Responses)
        \/ Download(t)
        \/ Stack(t)
        \/ \E u \in UploadInputs : Upload(t, u)
        \/ \E u \in UploadImageInputs : UploadImage(t, u)
        \/ WriteStaging(t)
        \/ UploadFile(t)
        \/ Finally(t)

Spec == Init /\ [][Next]_vars

\* Two calls with different keys on two threads; a thread can be switched
\* out between any two steps of its call.
KeyOf(t) == IF t = "t1" THEN "keyA" ELSE "keyB"

ConcResponses ==
    {[detail |-> "error"], [images |-> << [url |-> "u1"] >>],
     [images |-> << [url |-> "u1"], [url |-> "u5"] >>]}

NextConc ==
    \E t \in Threads :
        \/ Execute(t, DefaultArgs(KeyOf(t)))
        \/ Subscribe(t, ConcResponses)
        \/ Download(t)
        \/ Stack(t)
        \/ \E u \in UploadInputs : Upload(t, [u EXCEPT !.client = [api_key |-> KeyOf(t)]])
        \/ \E u \in UploadImageInputs :
              UploadImage(t, [u EXCEPT !.client = [api_key |-> KeyOf(t)]])
        \/ WriteStaging(t)
        \/ UploadFile(t)
        \/ Finally(t)

SpecConc == Init /\ [][NextConc]_vars

\* images2tensor applied to every list of up to MaxStack images and to a
\* single image.
InitStack ==
    /\ Idle
    /\ stack_in \in StackInputs
    /\ stack_out = NoOutcome
    /\ decode_in = NoInput
    /\ decode_out = NoOutcome

NextStack == Images2Tensor

SpecStack == InitStack /\ [][NextStack]_vars

\* decode_image applied to every file of DecodeInputs, with and without
\* rtn_mask.
InitDecode ==
    /\ Idle
    /\ stack_in = PyList(<<>>)
    /\ stack_out = NoOutcome
    /\ decode_in \in DecodeInputs
    /\ decode_out = NoOutcome

NextDecode == DecodeImage

SpecDecode == InitDecode /\ [][NextDecode]_vars


\* ------------------------------------------------- the claims
IsUpload(t) == call[t].op \in {"upload", "upload_image"}
IsExecute(t) == call[t].op = "execute"

\* The requests of thread t's call that carry a credential.
Authenticated(t) ==
    {i \in DOMAIN requests[t] : requests[t][i].kind \in {"subscribe", "upload_file"}}

\* C1: whenever an upload operation (FalAIUploadImage.upload or
\* FalClient.upload_image) has ended, by returning or by raising, its staging
\* file is no longer on disk.
C1_StagingFileDeleted ==
    \A t \in Threads :
        IsUpload(t) /\ pc[t] = "done" => StagingPath(t, call[t]) \notin files

\* C2: every remote request of a call (subscribe or upload_file) is made with
\* the API key that was passed to that call, whatever the other thread does.
C2_CredentialIsOwnKey ==
    \A t \in Threads : \A i \in Authenticated(t) :
        requests[t][i].credential = call[t].args.client.api_key


\* The subscribe request of thread t's call, once sent.
Subscribed(t) == IsExecute(t) /\ Len(requests[t]) >= 1
SubscribeRequest(t) == requests[t][1]

\* The GET requests of thread t's call, in the order issued.
Downloads(t) ==
    LET gets == SelectSeq(requests[t], LAMBDA q : q.kind = "get")
    IN  [i \in DOMAIN gets |-> gets[i].url]

\* A response without an image list, or with an empty one.
NoImageList(r) == "images" \notin DOMAIN r \/ Len(r.images) = 0

\* C3: once subscribe has returned a response whose image list is missing or
\* empty, execute has ended by raising the "no images" error that carries the
\* response; it has returned nothing and has issued no download.
C3_NoImagesRaises ==
    \A t \in Threads :
        Subscribed(t) /\ SubscribeRequest(t).reply.ok
            /\ NoImageList(SubscribeRequest(t).reply.value)
        => /\ pc[t] = "done"
           /\ outcome[t].status = "raised"
           /\ outcome[t].exc.type = "Exception"
           /\ outcome[t].exc.response = SubscribeRequest(t).reply.value
           /\ Downloads(t) = <<>>

\* C3's case: an empty image list came back and the call raised.
C3_Witness ==
    \E t \in Threads :
        /\ Subscribed(t) /\ SubscribeRequest(t).reply = Ok([images |-> <<>>])
        /\ outcome[t].status = "raised"

\* What the CDN makes of a URL: whether its download or decode fails, and the
\* exception that failure raises.
UrlFails(u) == CDN[u].status_code >= 400 \/ CDN[u].content.format = "garbage"
UrlFailure(u) ==
    IF CDN[u].status_code >= 400
    THEN Exc("HTTPError", u)
    ELSE Exc("UnidentifiedImageError", "cannot identify image file")

\* The URLs of a response with a non-empty image list.
UrlsOf(r) == [i \in DOMAIN r.images |-> r.images[i].url]

\* C4: a finished execute whose subscribe raised has raised that very
\* exception; one whose response holds a URL that cannot be downloaded or
\* decoded has raised the exception of the first such URL; and a batch is
\* returned only when every URL of the response was downloaded and decoded,
\* with one image per URL.
C4_AllOrNothing ==
    \A t \in Threads :
        Subscribed(t) /\ pc[t] = "done" =>
            LET reply == SubscribeRequest(t).reply IN
            /\ ~reply.ok => outcome[t] = Raising(reply.exc)
            /\ reply.ok /\ ~NoImageList(reply.value) =>
                  LET urls == UrlsOf(reply.value) IN
                  /\ \A i \in DOMAIN urls :
                        UrlFails(urls[i]) /\ (\A j \in 1..(i - 1) : ~UrlFails(urls[j]))
                            => outcome[t] = Raising(UrlFailure(urls[i]))
                  /\ outcome[t].status = "returned" =>
                        /\ \A i \in DOMAIN urls : ~UrlFails(urls[i])
                        /\ outcome[t].value[1].shape[1] = Len(urls)
            /\ outcome[t].status \in {"returned", "raised"}

\* C4's case: the first URL was downloaded and decoded, the second failed,
\* and the call raised.
C4_Witness ==
    \E t \in Threads :
        /\ Subscribed(t) /\ pc[t] = "done"
        /\ Len(image_urls[t]) = 2 /\ Len(images[t]) = 1
        /\ UrlFails(image_urls[t][2])
        /\ outcome[t].status = "raised"

\* The pixels execute is to return for a URL: the image stored there, as RGB.
PixelsOf(u) ==
    LET img == CDN[u].content.image
    IN  IF img.mode = "RGB" THEN img.id ELSE Append(img.id, "RGB")
SizeOf(u) == CDN[u].content.image.size

\* C5: a finished execute whose response is a non-empty list of URLs of
\* images of one size has returned a batch with one image per URL, the i-th
\* being the decoded content of the i-th URL, and has downloaded the URLs in
\* the order of the response, each once; and no batch is ever returned that
\* is not of this form.
C5_OrderPreserved ==
    \A t \in Threads :
        Subscribed(t) /\ pc[t] = "done" /\ SubscribeRequest(t).reply.ok
            /\ ~NoImageList(SubscribeRequest(t).reply.value) =>
            LET urls  == UrlsOf(SubscribeRequest(t).reply.value)
                good  == /\ \A i \in DOMAIN urls : ~UrlFails(urls[i])
                         /\ \A i, j \in DOMAIN urls : SizeOf(urls[i]) = SizeOf(urls[j])
                batch == outcome[t].value[1]
            IN  /\ good => outcome[t].status = "returned"
                /\ outcome[t].status = "returned" =>
                      /\ batch.shape = <<Len(urls), SizeOf(urls[1])[2], SizeOf(urls[1])[1], 3>>
                      /\ batch.data = [i \in DOMAIN urls |-> PixelsOf(urls[i])]
                      /\ Downloads(t) = urls

\* C5's case: a batch of two different images was returned.
C5_Witness ==
    \E t \in Threads :
        /\ Subscribed(t) /\ outcome[t].status = "returned"
        /\ Len(image_urls[t]) = 2 /\ image_urls[t][1] # image_urls[t][2]


\* C6: the payload sent to subscribe has no seed key when the seed given is
\* -1, and has seed equal to the seed given otherwise, 0 included.
C6_SeedOmission ==
    \A t \in Threads :
        Subscribed(t) =>
            LET sent == SubscribeRequest(t).arguments
                seed == call[t].args.seed
            IN  IF seed = -1
                THEN "seed" \notin DOMAIN sent
                ELSE "seed" \in DOMAIN sent /\ sent.seed = seed

\* C6's case: a payload was sent for seed 0.
C6_Witness ==
    \E t \in Threads :
        /\ Subscribed(t) /\ call[t].args.seed = 0
        /\ "seed" \in DOMAIN SubscribeRequest(t).arguments

\* A path with its leading and trailing whitespace removed, computed from the
\* positions of its first and last character that is not whitespace.
Solid(p) == {i \in DOMAIN p : p[i] \notin Whitespace}
Least(S) == CHOOSE i \in S : \A j \in S : i <= j
Greatest(S) == CHOOSE i \in S : \A j \in S : i >= j
Trimmed(p) == IF Solid(p) = {} THEN <<>> ELSE SubSeq(p, Least(Solid(p)), Greatest(Solid(p)))

\* The paths the loras field is to hold for two given paths.
WantedPaths(p1, p2) ==
    (IF Solid(p1) = {} THEN <<>> ELSE <<Trimmed(p1)>>)
        \o (IF Solid(p2) = {} THEN <<>> ELSE <<Trimmed(p2)>>)

\* C7: the loras field of the payload sent holds a path/scale entry for
\* exactly the LoRA inputs whose path is not blank, with the trimmed path,
\* input 1 before input 2; the key is absent when both paths are blank.
C7_LoraList ==
    \A t \in Threads :
        Subscribed(t) =>
            LET sent == SubscribeRequest(t).arguments
                want == WantedPaths(call[t].args.lora_1_path, call[t].args.lora_2_path)
            IN  IF want = <<>>
                THEN "loras" \notin DOMAIN sent
                ELSE /\ "loras" \in DOMAIN sent
                     /\ Len(sent.loras) = Len(want)
                     /\ \A i \in DOMAIN want :
                           /\ DOMAIN sent.loras[i] = {"path", "scale"}
                           /\ sent.loras[i].path = want[i]

\* C7's case: path 1 is whitespace only, path 2 has whitespace around it, and
\* the payload sent holds the one entry of path 2.
C7_Witness ==
    \E t \in Threads :
        /\ Subscribed(t)
        /\ call[t].args.lora_1_path = <<" ">>
        /\ call[t].args.lora_2_path = <<" ", "x">>
        /\ "loras" \in DOMAIN SubscribeRequest(t).arguments
        /\ Len(SubscribeRequest(t).arguments.loras) = 1

\* A value brought into the declared range of an input.
Clamp(v, name) ==
    IF v < INPUT_TYPES[name].min THEN INPUT_TYPES[name].min
    ELSE IF v > INPUT_TYPES[name].max THEN INPUT_TYPES[name].max
    ELSE v

\* C8: in the payload sent, num_inference_steps, guidance_scale, strength and
\* num_images are the inputs clamped to their ranges, and so is the scale of
\* every LoRA entry.
C8_Clamped ==
    \A t \in Threads :
        Subscribed(t) =>
            LET sent == SubscribeRequest(t).arguments
                a    == call[t].args
            IN  /\ sent.num_inference_steps = Clamp(a.num_inference_steps, "num_inference_steps")
                /\ sent.guidance_scale = Clamp(a.guidance_scale, "guidance_scale")
                /\ sent.strength = Clamp(a.strength, "strength")
                /\ sent.num_images = Clamp(a.num_images, "num_images")
                /\ "loras" \in DOMAIN sent =>
                      \A i \in DOMAIN sent.loras :
                          /\ sent.loras[i].scale >= INPUT_TYPES.lora_1_scale.min
                          /\ sent.loras[i].scale <= INPUT_TYPES.lora_1_scale.max

\* C9: subscribe is never called with an image_size that is not a preset: a
\* call given such a size ends by raising, with no request sent.
C9_SizeValidated ==
    \A t \in Threads :
        IsExecute(t) /\ call[t].args.image_size \notin IMAGE_SIZES =>
            /\ requests[t] = <<>>
            /\ pc[t] = "done" => outcome[t].status = "raised"

\* Height, width and channel count of a decoded image.
Bands(img) ==
    CASE img.mode \in {"L", "P"} -> 1 [] img.mode = "LA" -> 2
      [] img.mode = "RGB" -> 3 [] img.mode = "RGBA" -> 4
Dims(img) == <<img.size[2], img.size[1], Bands(img)>>
Mismatch(items) == \E i, j \in DOMAIN items : Dims(items[i]) # Dims(items[j])
Stacked == stack_in.type = "list" /\ stack_out # NoOutcome

\* C10 as claimed: stacking fails with the shape error whenever two of the
\* images differ in height, width or channel count, and stacking any sequence
\* of images of one shape, of whatever length, returns a batch with one entry
\* per image.
C10_StackAsClaimed ==
    Stacked =>
        IF Mismatch(stack_in.items)
        THEN stack_out.status = "raised" /\ stack_out.exc.type = "RuntimeError"
        ELSE /\ stack_out.status = "returned"
             /\ stack_out.value.shape[1] = Len(stack_in.items)

\* C10 amended: the same, for every sequence that is not empty; the batch
\* keeps the height and width of the images as they are (nothing is resized)
\* and holds them in order.
C10_StackNonEmpty ==
    Stacked /\ stack_in.items # <<>> =>
        IF Mismatch(stack_in.items)
        THEN /\ stack_out.status = "raised"
             /\ stack_out.exc = Exc("RuntimeError", "stack expects each tensor to be equal size")
        ELSE /\ stack_out.status = "returned"
             /\ stack_out.value.shape[1] = Len(stack_in.items)
             /\ Len(stack_out.value.data) = Len(stack_in.items)
             /\ SubSeq(stack_out.value.shape, 2, 3) = SubSeq(Dims(stack_in.items[1]), 1, 2)
             /\ \A i \in DOMAIN stack_in.items : stack_out.value.data[i] = stack_in.items[i].id

\* C10's case: a 64x64 and a 32x32 image of three channels were stacked and
\* the stacking raised.
C10_Witness ==
    /\ Stacked /\ Len(stack_in.items) = 2
    /\ Dims(stack_in.items[1]) = <<64, 64, 3>>
    /\ Dims(stack_in.items[2]) = <<32, 32, 3>>
    /\ stack_out.status = "raised"


\* Whether a file's layout has an alpha channel, and the image of a file.
AlphaModes == {"LA", "PA", "RGBA"}
Decoded == decode_out # NoOutcome /\ decode_in.data_bytes.format # "garbage"
Source == decode_in.data_bytes.image

\* C11: decode_image of an image file, whatever its channel layout, returns
\* (never raises) a three-channel RGB image of the file's size when rtn_mask
\* is false; when rtn_mask is true it returns the single-channel alpha band of
\* the file if the layout has an alpha channel, and None otherwise.
C11_DecodeChannels ==
    Decoded =>
        /\ decode_out.status = "returned"
        /\ IF ~decode_in.rtn_mask
           THEN /\ decode_out.value.type = "Image"
                /\ decode_out.value.mode = "RGB"
                /\ getbands(decode_out.value) = <<"R", "G", "B">>
                /\ decode_out.value.size = Source.size
           ELSE IF Source.mode \in AlphaModes
           THEN /\ decode_out.value.type = "Image"
                /\ Len(getbands(decode_out.value)) = 1
                /\ decode_out.value.id = Append(Source.id, "A")
                /\ decode_out.value.size = Source.size
           ELSE decode_out.value = None

\* C11's case: a mask was asked of a file without alpha and None came back.
C11_Witness ==
    /\ Decoded /\ decode_in.rtn_mask /\ Source.mode = "RGB"
    /\ decode_out = Returned(None)


\* Where an orchestration call stands: Built once the payload is built,
\* Submitted once subscribe has returned an image list that is being
\* downloaded, Succeeded or Failed once execute has returned or raised.
OrchState(t) ==
    CASE pc[t] = "subscribe"       -> "Built"
      [] pc[t] = "imageurl2tensor" -> "Submitted"
      [] pc[t] = "done" /\ outcome[t].status = "returned" -> "Succeeded"
      [] pc[t] = "done" /\ outcome[t].status = "raised"   -> "Failed"
      [] OTHER -> "Idle"

Subscribes(t) == SelectSeq(requests[t], LAMBDA q : q.kind = "subscribe")

\* In every state: nothing is sent before the call is submitted; from then on
\* exactly one subscribe has been sent, first of all requests, for the model,
\* with with_logs true and with the payload as built; and a call is Submitted
\* or Succeeded only on a response with a non-empty image list.
OrchInvariant ==
    \A t \in Threads :
        IsExecute(t) =>
            /\ OrchState(t) # "Idle"
            /\ arguments[t] = BuildArguments(call[t].args)
            /\ OrchState(t) = "Built" => requests[t] = <<>>
            /\ OrchState(t) # "Built" =>
                  /\ Len(Subscribes(t)) = 1
                  /\ SubscribeRequest(t).kind = "subscribe"
                  /\ SubscribeRequest(t).model_id = model_id
                  /\ SubscribeRequest(t).with_logs = TRUE
                  /\ SubscribeRequest(t).arguments = arguments[t]
            /\ OrchState(t) \in {"Submitted", "Succeeded"} =>
                  /\ SubscribeRequest(t).reply.ok
                  /\ ~NoImageList(SubscribeRequest(t).reply.value)

\* In every step: a call moves along Built -> Submitted -> Succeeded | Failed
\* (the blocking subscribe and the test of its result are one step, so a call
\* whose subscribe raises or whose response has no images goes from Built to
\* Failed in that step, its one subscribe sent); Succeeded is entered from
\* Submitted only; the payload never changes; and a call that has Succeeded
\* or Failed stays so and sends nothing more.
OrchStep ==
    \A t \in Threads :
        IsExecute(t) =>
            /\ arguments'[t] = arguments[t]
            /\ OrchState(t) = "Built" => OrchState(t)' \in {"Built", "Submitted", "Failed"}
            /\ OrchState(t) = "Submitted" =>
                  OrchState(t)' \in {"Submitted", "Succeeded", "Failed"}
            /\ OrchState(t) \in {"Succeeded", "Failed"} =>
                  /\ OrchState(t)' = OrchState(t)
                  /\ requests'[t] = requests[t]
                  /\ outcome'[t] = outcome[t]
            /\ OrchState(t)' = "Succeeded" => OrchState(t) \in {"Submitted", "Succeeded"}

\* C12: every orchestration call follows Built -> Submitted -> Succeeded |
\* Failed, sends exactly one subscribe, with with_logs true and the built
\* payload unchanged, succeeds only from Submitted on a non-empty image list,
\* and sends no subscribe or download once it has Succeeded or Failed.
C12_StateMachine == []OrchInvariant /\ [][OrchStep]_vars

\* C12's case: a call has Succeeded after one subscribe and two downloads.
C12_Witness ==
    \E t \in Threads :
        /\ IsExecute(t) /\ OrchState(t) = "Succeeded"
        /\ Len(Subscribes(t)) = 1 /\ Len(Downloads(t)) = 2

====
